---- MODULE Spec2Model ----
(***************************************************************************)
(* Model of src/controller.py: the step-wise capture / decide / apply      *)
(* loop of AutomationWorker.run, the three functions it calls              *)
(* (capture_and_encode_screenshot, get_adb_commands_from_gemini,           *)
(* execute_adb_command) and the three handlers of AndroidAutomationApp     *)
(* that start a run, request a stop and process the terminal event.        *)
(*                                                                         *)
(* The worker thread and the GUI thread share one flag, _is_running.  Each *)
(* worker action below contains exactly one read of that flag followed by  *)
(* thread-local statements up to the next blocking call, so a stop request *)
(* can fall between any two reads the code makes.                          *)
(***************************************************************************)
EXTENDS Integers, Sequences, FiniteSets, TLC

\* ------------------------------------------------------------------ bounds

\* Number of runs (workers created by start_automation) the model explores.
MaxRuns == 2

\* run(): max_steps = 20
max_steps == 20

\* ------------------------------------------------------- Python / JSON values

\* A JSON / Python scalar: t is its type, v its text as a sequence of tokens
\* (a token is one word, or " " for a run of whitespace).
Str(s) == [t |-> "str", v |-> s]
Num == [t |-> "num", v |-> <<"5">>]
NoneV == [t |-> "none", v |-> <<>>]

\* Python truthiness, as used by `if not command_to_execute`.
Truthy(x) ==
    CASE x.t = "none" -> FALSE
      [] x.t = "str" -> x.v # <<>>
      [] OTHER -> TRUE

\* str.split(): the whitespace-separated words of a text.
Split(s) == SelectSeq(s, LAMBDA tok : tok # " ")

EmptyDict == [k \in {} |-> NoneV]
Dict(f) == [t |-> "dict", d |-> f]
JsonList == [t |-> "list", d |-> EmptyDict]
Unset == [t |-> "unset", d |-> EmptyDict]

\* dict.get(key) with default None
Get(resp, key) == IF key \in DOMAIN resp.d THEN resp.d[key] ELSE NoneV

\* `"error" in gemini_response` on a dict
HasKey(resp, key) == key \in DOMAIN resp.d

\* ------------------------------------------------------------- input sets

\* Texts of the task entry: empty, the placeholder, and two goals.
Placeholder == "Enter command"
TaskEntries == {"", Placeholder, "open settings", "send mail"}

\* Values the reply's `command` key can hold.
Commands ==
    { Str(<<>>), Str(<<" ">>), Str(<<"input", " ", "tap">>),
      Str(<<"devices">>), Num }

Statuses == { Str(<<"continue">>), Str(<<"done">>) }
Reasons == { Str(<<"ok">>) }

ReplyKeys == {"command", "status", "reason"}

ValuesOf(key) ==
    CASE key = "command" -> Commands
      [] key = "status" -> Statuses
      [] key = "reason" -> Reasons

\* Every JSON object over the reply keys (any subset of the keys present).
JsonObjects ==
    UNION { { Dict(f) : f \in { g \in [ks -> UNION {ValuesOf(k) : k \in ks}] :
                                  \A k \in ks : g[k] \in ValuesOf(k) } }
            : ks \in SUBSET ReplyKeys }

\* What json.loads can return for a well-formed text.
JsonValues == JsonObjects \cup {JsonList}

\* --------------------------------------------------- the Decision Client

\* The request built at lines 75-83: the goal text after the fixed system
\* instruction, and the screenshot as inline data only when it is truthy.
RequestParts_no_image(overall_task, base64_image_data) ==
    [ text |-> overall_task, inlineData |-> "absent" ]

RequestParts(overall_task, base64_image_data) ==
    [ text |-> overall_task,
      inlineData |-> IF base64_image_data # "" THEN base64_image_data
                     ELSE "absent" ]

\* What the HTTP exchange can produce: a transport / HTTP-status failure, any
\* other exception, a reply without candidates/content/parts, or a reply
\* text.  A reply text is an optional opening fence, a body and an optional
\* closing fence; the body is a well-formed JSON document (valid) or not.
\* "<fence>" stands for the three backticks of a markdown code fence and
\* "<fence>json" for the same followed by the language tag json.
FenceOpens == {"", "<fence>json", "<fence>"}
FenceCloses == {"", "<fence>"}

NoText == [open |-> "", valid |-> FALSE, value |-> JsonList, close |-> ""]

HttpOutcomes ==
    { [kind |-> k, text |-> NoText] :
        k \in {"RequestException", "Exception", "no_content"} }
    \cup
    { [kind |-> "text",
       text |-> [open |-> o, valid |-> b, value |-> j, close |-> c]] :
        o \in FenceOpens, c \in FenceCloses, b \in {TRUE},
        j \in JsonValues }
    \cup
    { [kind |-> "text",
       text |-> [open |-> o, valid |-> FALSE, value |-> JsonList, close |-> c]] :
        o \in FenceOpens, c \in FenceCloses }

ErrorReply(msg) == Dict([k \in {"error"} |-> Str(<<msg>>)])
ErrorReplyWith(msg, extra) ==
    Dict([k \in {"error", extra} |-> IF k = "error" THEN Str(<<msg>>)
                                    ELSE Str(<<"dump">>)])

\* Lines 119-120: the fence is removed only when the text starts with the
\* json-tagged fence and ends with a fence.
FenceStripped(text) == text.open = "<fence>json" /\ text.close = "<fence>"

StripFence(text) ==
    IF FenceStripped(text)
    THEN [text EXCEPT !.open = "", !.close = ""]
    ELSE text

\* json.loads succeeds on a text that is exactly one well-formed document.
JsonLoadsOk(text) == text.open = "" /\ text.close = "" /\ text.valid

\* Lines 122-125: json.loads of the (possibly unfenced) text; a decode
\* error becomes an error reply.  The parsed value is returned as it is:
\* no key is checked.
ParseReply(text) ==
    IF JsonLoadsOk(StripFence(text))
    THEN text.value
    ELSE ErrorReplyWith("Gemini returned invalid JSON", "raw_response")

\* get_adb_commands_from_gemini, lines 112-131.
get_adb_commands_from_gemini(http) ==
    CASE http.kind = "RequestException" ->
            ErrorReply("Error communicating with Gemini API")
      [] http.kind = "Exception" ->
            ErrorReply("An unexpected error occurred")
      [] http.kind = "no_content" ->
            ErrorReplyWith("No content generated by Gemini", "response")
      [] OTHER -> ParseReply(http.text)

\* ------------------------------------------------ the Device Bridge Adapter

NoneStr == "<None>"
UnsetStr == "<unset>"

\* Outcomes of the capture subprocesses and file read: an exception of one
\* of the three handled classes, or the bytes read (possibly none).
CaptureOutcomes ==
    { [error |-> e, data |-> ""] :
        e \in {"CalledProcessError", "FileNotFoundError", "Exception"} }
    \cup
    { [error |-> "none", data |-> d] : d \in {"", "imgA"} }

\* capture_and_encode_screenshot, lines 141-208: the base64 text, or None
\* after any exception.
capture_and_encode_screenshot(o) ==
    IF o.error = "none" THEN o.data ELSE NoneStr

\* Outcomes of subprocess.run in execute_adb_command.
ProcOutcomes == {"ok", "CalledProcessError", "FileNotFoundError", "Exception"}

DirectVerbs_missing == {"screencap", "pull", "install", "push", "logcat"}

DirectVerbs == {"screencap", "pull", "install", "push", "devices", "logcat"}

NoCmd == << >>

\* Lines 220-223: the argv sent to the bridge.
FullCmd(command) ==
    IF Head(Split(command.v)) \in DirectVerbs
    THEN <<"adb">> \o Split(command.v)
    ELSE <<"adb", "shell">> \o Split(command.v)

\* execute_adb_command, lines 215-258.  command.strip() at line 215 is
\* outside the try block: a command that is not a string raises
\* AttributeError into the caller.  Result: whether it raised, the boolean
\* returned, and the argv run (NoCmd when no subprocess was started).
execute_adb_command(command, proc) ==
    IF command.t # "str"
    THEN [raised |-> TRUE, ret |-> FALSE, full_cmd |-> NoCmd]
    ELSE IF Split(command.v) = << >>
    THEN [raised |-> FALSE, ret |-> FALSE, full_cmd |-> NoCmd]
    ELSE [raised |-> FALSE, ret |-> (proc = "ok"), full_cmd |-> FullCmd(command)]

\* ------------------------------------------------------------------ state

VARIABLES
    \* AndroidAutomationApp (GUI thread)
    running_task,       \* self.running_task
    worker,             \* self.worker is not None
    runs,               \* number of AutomationWorker objects created so far
    finished_queue,     \* automation_finished_signal emissions queued for the GUI
    orphan_logs,        \* earlier workers that still have to emit their last log line
    \* AutomationWorker referenced by self.worker
    overall_task,       \* self.overall_task
    is_running,         \* self._is_running
    pc,                 \* position of run()
    current_step,
    current_screenshot_base64,
    gemini_response,
    success,
    \* what the worker has emitted and called, as seen from outside
    exit_log,           \* the log line written when the loop was left
    stop_requested,     \* stop() has been called on this worker
    nCapture,           \* capture_and_encode_screenshot calls started
    nDecide,            \* get_adb_commands_from_gemini calls started
    nApply,             \* execute_adb_command calls started
    nCaptureOk,         \* capture calls that returned a screenshot
    nDecideOk,          \* decide calls that returned a reply without "error"
    nFinished,          \* automation_finished_signal emissions
    nShowError,         \* show_error_signal emissions
    show_error,         \* message of the last show_error_signal
    payload,            \* request parts of the last decide call
    full_cmd,           \* argv of the last execute_adb_command call
    after_finished,     \* signals emitted after automation_finished_signal
    \* get_adb_commands_from_gemini taken on its own
    response            \* outcome of the HTTP exchange of a call in progress

gui_vars == <<running_task, worker, runs, finished_queue, orphan_logs>>
local_vars == <<current_step, current_screenshot_base64, gemini_response, success>>
call_vars == <<nCapture, nDecide, nApply, nCaptureOk, nDecideOk, payload,
              full_cmd>>
signal_vars == <<nFinished, nShowError, show_error>>
worker_vars == <<overall_task, is_running, pc, exit_log, stop_requested,
                 local_vars, call_vars, signal_vars>>
tail_vars == <<after_finished>>
parse_vars == <<response>>
vars == <<gui_vars, worker_vars, tail_vars, parse_vars>>

NoPayload == [text |-> "", inlineData |-> "absent"]

\* No decide call is in progress: inside the loop the call is one step, and
\* its locals do not outlive it.
NoResponse == [kind |-> "none", text |-> NoText]

\* The application after construction, before any run.
Idle ==
    /\ running_task = FALSE
    /\ worker = FALSE
    /\ runs = 0
    /\ finished_queue = 0
    /\ orphan_logs = 0
    /\ overall_task = ""
    /\ is_running = FALSE
    /\ pc = "no_worker"
    /\ current_step = 0
    /\ current_screenshot_base64 = UnsetStr
    /\ gemini_response = Unset
    /\ success = FALSE
    /\ exit_log = "none"
    /\ stop_requested = FALSE
    /\ nCapture = 0
    /\ nDecide = 0
    /\ nApply = 0
    /\ nCaptureOk = 0
    /\ nDecideOk = 0
    /\ after_finished = << >>
    /\ nFinished = 0
    /\ nShowError = 0
    /\ show_error = "none"
    /\ payload = NoPayload
    /\ full_cmd = NoCmd

Init ==
    /\ Idle
    /\ response = NoResponse

\* ------------------------------------------------------ AndroidAutomationApp

\* Lines 489-500: the three early returns of start_automation (API_KEY is a
\* non-empty literal, so the second never fires).
StartRefused_no_guard(text) == text = "" \/ text = Placeholder

StartRefused(text) == running_task \/ text = "" \/ text = Placeholder

\* Line 271: the running flag of a new worker.
InitIsRunning_stale == is_running
InitIsRunning == TRUE

\* start_automation, lines 487-526, for the text in the task entry.  A new
\* AutomationWorker replaces self.worker and its thread is started; run()
\* begins later, in that thread.  A previous worker that has emitted its
\* terminal event but not yet its last log line finishes on its own.
start_automation ==
    \E text \in TaskEntries :
        IF StartRefused(text)
        THEN UNCHANGED vars
        ELSE /\ runs < MaxRuns
             /\ running_task' = TRUE
             /\ worker' = TRUE
             /\ runs' = runs + 1
             /\ orphan_logs' = IF pc = "final_log" THEN orphan_logs + 1
                               ELSE orphan_logs
             /\ UNCHANGED finished_queue
             \* AutomationWorker.__init__, lines 268-271
             /\ overall_task' = text
             /\ is_running' = InitIsRunning
             /\ pc' = "created"
             /\ current_step' = 0
             /\ current_screenshot_base64' = UnsetStr
             /\ gemini_response' = Unset
             /\ success' = FALSE
             /\ exit_log' = "none"
             /\ stop_requested' = FALSE
             /\ nCapture' = 0
             /\ nDecide' = 0
             /\ nApply' = 0
             /\ nCaptureOk' = 0
             /\ nDecideOk' = 0
             /\ after_finished' = << >>
             /\ nFinished' = 0
             /\ nShowError' = 0
             /\ show_error' = "none"
             /\ payload' = NoPayload
             /\ full_cmd' = NoCmd
             /\ UNCHANGED parse_vars

\* stop_automation, lines 528-532, and AutomationWorker.stop, lines 273-274.
stop_automation ==
    /\ IF worker
       THEN /\ is_running' = FALSE
            /\ stop_requested' = TRUE
       ELSE UNCHANGED <<is_running, stop_requested>>
    /\ UNCHANGED <<gui_vars, overall_task, pc, exit_log, local_vars, call_vars,
                   signal_vars>>
    /\ UNCHANGED parse_vars
    /\ UNCHANGED tail_vars

\* _automation_finished, lines 535-539: the slot run by the GUI thread for a
\* queued automation_finished_signal.
automation_finished ==
    /\ finished_queue > 0
    /\ finished_queue' = finished_queue - 1
    /\ running_task' = FALSE
    /\ UNCHANGED <<worker, runs, orphan_logs, worker_vars>>
    /\ UNCHANGED parse_vars
    /\ UNCHANGED tail_vars

\* ---------------------------------------------------------- AutomationWorker

\* Line 280: the loop condition.
LoopCondition_le(running, step) == running /\ step <= max_steps
LoopCondition(running, step) == running /\ step < max_steps

\* Lines 290, 305, 337: the checkpoint after each blocking call.
StopPending_ignored(running) == FALSE
StopPending(running) == ~running

\* Line 341
ExecuteFailed_ignored(ok) == FALSE
ExecuteFailed(ok) == ~ok

\* Line 294
CaptureFailed_empty(shot) == shot = ""
CaptureFailed(shot) == shot = NoneStr

\* Line 309.  On a reply that is not a dict the test or the .get calls that
\* follow raise (TypeError / AttributeError).
ReplyRaises(resp) == resp.t # "dict"
ReplyIsError(resp) == HasKey(resp, "error")

\* Lines 317-318
command_to_execute(resp) == Get(resp, "command")
task_status(resp) == Get(resp, "status")

\* Line 335: the argument of the apply call.
ApplyArgument_reason(resp) == Get(resp, "reason")
ApplyArgument(resp) == command_to_execute(resp)

\* Line 324
NoCommand_is_none(resp) == command_to_execute(resp) = NoneV
NoCommand_blank(resp) ==
    \/ ~Truthy(command_to_execute(resp))
    \/ /\ command_to_execute(resp).t = "str"
       /\ Split(command_to_execute(resp).v) = << >>
NoCommand(resp) == ~Truthy(command_to_execute(resp))

\* Lines 326 and 351
StatusDone_upper(resp) == task_status(resp) = Str(<<"DONE">>)
StatusDone(resp) == task_status(resp) = Str(<<"done">>)

\* A break statement: the loop is left with the given log line written.
Break(log) ==
    /\ exit_log' = log
    /\ pc' = "post_loop"

\* show_error_signal.emit(...) followed by self._is_running = False; break
Fail_continue(log, message) ==
    /\ exit_log' = log
    /\ pc' = "while"
    /\ is_running' = is_running
    /\ nShowError' = nShowError + 1
    /\ show_error' = message
Fail(log, message) ==
    /\ Break(log)
    /\ is_running' = FALSE
    /\ nShowError' = nShowError + 1
    /\ show_error' = message

\* An exception leaves the try block: control goes to the finally clause.
Raise_skips_finally ==
    /\ exit_log' = "exception"
    /\ pc' = "ended"
Raise ==
    /\ exit_log' = "exception"
    /\ pc' = "finally"

\* Lines 277-278: run() is entered in the worker thread.
run_begin ==
    /\ pc = "created"
    /\ current_step' = 0
    /\ pc' = "while"
    /\ UNCHANGED <<gui_vars, overall_task, is_running, exit_log, stop_requested,
                   current_screenshot_base64, gemini_response, success,
                   call_vars, signal_vars>>
    /\ UNCHANGED parse_vars
    /\ UNCHANGED tail_vars

\* Line 281: current_step += 1
NextStep_same(step) == step
NextStep(step) == step + 1

\* Lines 280-288: the loop condition is evaluated; when it holds the step
\* counter is incremented and the capture call is started.
while_test ==
    /\ pc = "while"
    /\ IF LoopCondition(is_running, current_step)
       THEN /\ current_step' = NextStep(current_step)
            /\ nCapture' = nCapture + 1
            /\ pc' = "capturing"
       ELSE /\ pc' = "post_loop"
            /\ UNCHANGED <<current_step, nCapture>>
    /\ UNCHANGED <<gui_vars, overall_task, is_running, exit_log, stop_requested,
                   current_screenshot_base64, gemini_response, success,
                   nDecide, nApply, nCaptureOk, nDecideOk, payload, full_cmd,
                   signal_vars>>
    /\ UNCHANGED parse_vars
    /\ UNCHANGED tail_vars

\* Lines 285-303: the capture call returns, the flag is read, the result is
\* tested and the decide call is started.
after_capture ==
    /\ pc = "capturing"
    /\ \E o \in CaptureOutcomes :
        LET shot == capture_and_encode_screenshot(o) IN
        /\ current_screenshot_base64' = shot
        /\ nCaptureOk' = IF shot = NoneStr THEN nCaptureOk ELSE nCaptureOk + 1
        /\ IF StopPending(is_running)
           THEN /\ Break("stopped_capture")
                /\ UNCHANGED <<is_running, nShowError, show_error, nDecide, payload>>
           ELSE IF CaptureFailed(shot)
           THEN /\ Fail("capture_failed", "Failed to get screenshot")
                /\ UNCHANGED <<nDecide, payload>>
           ELSE /\ pc' = "deciding"
                /\ nDecide' = nDecide + 1
                /\ payload' = RequestParts(overall_task, shot)
                /\ UNCHANGED <<is_running, exit_log, nShowError, show_error>>
    /\ UNCHANGED <<gui_vars, overall_task, stop_requested, current_step,
                   gemini_response, success, nCapture, nApply, nDecideOk,
                   full_cmd, nFinished>>
    /\ UNCHANGED parse_vars
    /\ UNCHANGED tail_vars

\* Lines 303-335: the decide call returns, the flag is read, the reply is
\* tested and the apply call is started.
after_decide ==
    /\ pc = "deciding"
    /\ \E http \in HttpOutcomes :
        LET resp == get_adb_commands_from_gemini(http) IN
        /\ gemini_response' = resp
        /\ nDecideOk' = IF resp.t = "dict" /\ ~HasKey(resp, "error")
                        THEN nDecideOk + 1 ELSE nDecideOk
        /\ IF StopPending(is_running)
           THEN /\ Break("stopped_decide")
                /\ UNCHANGED <<is_running, nShowError, show_error, nApply>>
           ELSE IF ReplyRaises(resp)
           THEN /\ Raise
                /\ UNCHANGED <<is_running, nShowError, show_error, nApply>>
           ELSE IF ReplyIsError(resp)
           THEN /\ Fail("gemini_error", "Gemini API Error")
                /\ UNCHANGED nApply
           ELSE IF NoCommand(resp)
           THEN /\ Break(IF StatusDone(resp) THEN "no_command_done"
                         ELSE "no_command")
                /\ is_running' = FALSE
                /\ UNCHANGED <<nShowError, show_error, nApply>>
           ELSE /\ pc' = "executing"
                /\ nApply' = nApply + 1
                /\ UNCHANGED <<is_running, exit_log, nShowError, show_error>>
    /\ UNCHANGED <<gui_vars, overall_task, stop_requested, current_step,
                   current_screenshot_base64, success, nCapture, nDecide,
                   nCaptureOk, payload, full_cmd, nFinished>>
    /\ UNCHANGED parse_vars
    /\ UNCHANGED tail_vars

\* Lines 335-355: the apply call returns (or raises), the flag is read, the
\* result and the status are tested.
after_execute ==
    /\ pc = "executing"
    /\ \E proc \in ProcOutcomes :
        LET r == execute_adb_command(ApplyArgument(gemini_response), proc) IN
        /\ full_cmd' = r.full_cmd
        /\ IF r.raised
           THEN /\ Raise
                /\ UNCHANGED <<success, is_running, nShowError, show_error>>
           ELSE /\ success' = r.ret
                /\ IF StopPending(is_running)
                   THEN /\ Break("stopped_execute")
                        /\ UNCHANGED <<is_running, nShowError, show_error>>
                   ELSE IF ExecuteFailed(r.ret)
                   THEN Fail("execute_failed", "Failed to execute ADB command")
                   ELSE IF StatusDone(gemini_response)
                   THEN /\ Break("task_completed")
                        /\ is_running' = FALSE
                        /\ UNCHANGED <<nShowError, show_error>>
                   ELSE /\ pc' = "while"
                        /\ UNCHANGED <<is_running, exit_log, nShowError, show_error>>
    /\ UNCHANGED <<gui_vars, overall_task, stop_requested, current_step,
                   current_screenshot_base64, gemini_response, nCapture,
                   nDecide, nApply, nCaptureOk, nDecideOk, payload,
                   nFinished>>
    /\ UNCHANGED parse_vars
    /\ UNCHANGED tail_vars

\* Line 357: the test after the loop.
PostLoopLimit_always(running) == TRUE
PostLoopLimit(running) == running

\* Lines 357-361: after the loop.
post_loop ==
    /\ pc = "post_loop"
    /\ IF PostLoopLimit(is_running)
       THEN /\ exit_log' = "limit_reached"
            /\ is_running' = FALSE
       ELSE UNCHANGED <<exit_log, is_running>>
    /\ pc' = "finally"
    /\ UNCHANGED <<gui_vars, overall_task, stop_requested, local_vars,
                   call_vars, signal_vars>>
    /\ UNCHANGED parse_vars
    /\ UNCHANGED tail_vars

\* Line 364: the terminal event.
EmitFinished_none(n) == n
EmitFinished(n) == n + 1

finally ==
    /\ pc = "finally"
    /\ nFinished' = EmitFinished(nFinished)
    /\ finished_queue' = finished_queue + 1
    /\ pc' = "final_log"
    /\ UNCHANGED <<running_task, worker, runs, orphan_logs, overall_task,
                   is_running, exit_log, stop_requested, local_vars, call_vars,
                   nShowError, show_error>>
    /\ UNCHANGED parse_vars
    /\ UNCHANGED tail_vars

\* Line 365: what is emitted after the terminal event.
FinalLog_with_error == <<"log", "show_error">>
FinalLog == <<"log">>

\* Line 365: the last log line; run() returns.
final_log ==
    /\ pc = "final_log"
    /\ pc' = "ended"
    /\ UNCHANGED <<gui_vars, overall_task, is_running, exit_log, stop_requested,
                   local_vars, call_vars, signal_vars>>
    /\ UNCHANGED parse_vars
    /\ after_finished' = after_finished \o FinalLog

\* Line 365 in a worker that self.worker no longer references.
orphan_final_log ==
    /\ orphan_logs > 0
    /\ orphan_logs' = orphan_logs - 1
    /\ UNCHANGED <<running_task, worker, runs, finished_queue, worker_vars>>
    /\ UNCHANGED parse_vars
    /\ UNCHANGED tail_vars

Next ==
    \/ start_automation
    \/ stop_automation
    \/ automation_finished
    \/ run_begin
    \/ while_test
    \/ after_capture
    \/ after_decide
    \/ after_execute
    \/ post_loop
    \/ finally
    \/ final_log
    \/ orphan_final_log

Spec == Init /\ [][Next]_vars

\* The steps of run().  Each is the return of a blocking call or a local
\* statement of the worker thread.
WorkerNext ==
    \/ run_begin
    \/ while_test
    \/ after_capture
    \/ after_decide
    \/ after_execute
    \/ post_loop
    \/ finally

\* Every capture, decide and apply call eventually returns and the worker
\* thread is scheduled; nothing is assumed of the user.
FairSpec == Spec /\ WF_vars(WorkerNext)

\* get_adb_commands_from_gemini on its own, lines 112-131: the HTTP exchange
\* has produced any of its outcomes, and the function turns it into the
\* value it returns.
ParseInit ==
    /\ Idle
    /\ response \in HttpOutcomes

parse_reply ==
    /\ response \in HttpOutcomes
    /\ gemini_response = Unset
    /\ gemini_response' = get_adb_commands_from_gemini(response)
    /\ UNCHANGED <<gui_vars, overall_task, is_running, pc, exit_log,
                   stop_requested, current_step, current_screenshot_base64,
                   success, call_vars, signal_vars, tail_vars, parse_vars>>

ParseNext == parse_reply

ParseSpec == ParseInit /\ [][ParseNext]_vars

\* ----------------------------------------------------------------- outcome

\* The terminal state of the spec's Control Loop that a way of leaving the
\* loop stands for.  A loop left by its condition with no log line written
\* was stopped between steps.
terminal_reason ==
    CASE exit_log \in {"stopped_capture", "stopped_decide", "stopped_execute",
                       "none"} -> "CANCELLED"
      [] exit_log \in {"capture_failed", "gemini_error", "no_command",
                       "execute_failed"} -> "FATAL_ERROR"
      [] exit_log \in {"task_completed", "no_command_done"} -> "COMPLETE"
      [] exit_log = "limit_reached" -> "STEP_LIMIT_REACHED"
      [] OTHER -> "EXCEPTION"

\* run() has left the try block.
Terminated == pc \in {"final_log", "ended"}

TypeOK ==
    /\ running_task \in BOOLEAN
    /\ runs \in 0..MaxRuns
    /\ current_step \in 0..max_steps
    /\ pc \in {"no_worker", "created", "while", "capturing", "deciding",
               "executing", "post_loop", "finally", "final_log", "ended"}

\* ------------------------------------------------------------------ claims

\* The loop has been left and the code after it (lines 357-361) has run.
PastLoop == pc \in {"finally", "final_log", "ended"}

\* The loop has been left.
LoopLeft == pc \in {"post_loop", "finally", "final_log", "ended"}

\* The capture call of the current step has returned with a failure.
CapturedThisStep == current_step >= 1 /\ nCapture = current_step /\ pc # "capturing"

\* gemini_response is the reply of the current step's decide call.
DecidedThisStep == current_step >= 1 /\ nDecide = current_step /\ pc # "deciding"

\* The current step's apply call was made with a string and has returned,
\* so success is its result.
AppliedThisStep ==
    /\ DecidedThisStep
    /\ nApply = current_step
    /\ pc # "executing"
    /\ command_to_execute(gemini_response).t = "str"

\* The reply of the current step says done / carries no action.
ReplyDone == task_status(gemini_response) = Str(<<"done">>)
EmptyAction == command_to_execute(gemini_response) \in {NoneV, Str(<<>>)}

\* The reply carries a command with at least one word.
RunnableCommand ==
    /\ command_to_execute(gemini_response).t = "str"
    /\ Split(command_to_execute(gemini_response).v) # << >>

\* The reply carries the three required keys.
AllKeys == \A k \in ReplyKeys : HasKey(gemini_response, k)

\* FATAL_ERROR, or CANCELLED when a stop request had been made.
FatalUnlessStopped ==
    /\ terminal_reason \in {"FATAL_ERROR", "CANCELLED"}
    /\ ~stop_requested => terminal_reason = "FATAL_ERROR"
    /\ terminal_reason = "CANCELLED" => stop_requested

\* C1: the step counter and the number of captures never exceed max_steps,
\* and a run whose max_steps-th step applied its action successfully with a
\* status other than done and without any stop request ends in
\* STEP_LIMIT_REACHED having made exactly max_steps captures.
C1_StepLimit ==
    /\ current_step <= max_steps
    /\ nCapture <= max_steps
    /\ ( /\ PastLoop
         /\ current_step = max_steps
         /\ AppliedThisStep
         /\ success
         /\ ~ReplyDone
         /\ ~stop_requested )
       => ( /\ terminal_reason = "STEP_LIMIT_REACHED"
            /\ nCapture = max_steps )

C1_Witness ==
    /\ Terminated
    /\ exit_log = "limit_reached"
    /\ current_step = max_steps
    /\ nApply = max_steps
    /\ ~stop_requested

\* C2 as stated: whenever the decide call of a step returned status done
\* (with a command that is a string, or none), the run ends in COMPLETE.
C2_DoneAlwaysCompletes ==
    ( /\ PastLoop
      /\ DecidedThisStep
      /\ ReplyDone
      /\ command_to_execute(gemini_response).t \in {"str", "none"} )
    => terminal_reason = "COMPLETE"

\* C2 (amended): after a reply with status done no further step is started;
\* the run ends in COMPLETE when no stop request has been made and the
\* action is empty or was applied successfully; a first decision that is
\* done with a successfully applied action gives COMPLETE at step 1.
C2_DoneCompletes ==
    /\ ( DecidedThisStep /\ ReplyDone )
       => ( /\ pc \in {"executing", "post_loop", "finally", "final_log", "ended"}
            /\ nCapture = current_step )
    /\ ( /\ PastLoop
         /\ DecidedThisStep
         /\ ReplyDone
         /\ ~stop_requested
         /\ EmptyAction \/ (AppliedThisStep /\ success) )
       => ( /\ terminal_reason = "COMPLETE"
            /\ nDecide = 1 => current_step = 1
            /\ EmptyAction => nApply = current_step - 1 )

C2_Witness ==
    /\ Terminated
    /\ exit_log = "task_completed"
    /\ current_step = 1
    /\ nApply = 1
    /\ success

\* C3 as stated: a failed capture always ends the run in FATAL_ERROR.
C3_CaptureFailureAlwaysFatal ==
    ( /\ LoopLeft
      /\ CapturedThisStep
      /\ current_screenshot_base64 = NoneStr )
    => terminal_reason = "FATAL_ERROR"

\* C3 (amended): after a failed capture the loop is left without a decide or
\* apply call for that step and without a later step; the run ends in
\* FATAL_ERROR, or in CANCELLED when a stop request was pending at the
\* checkpoint after the capture.
C3_CaptureFailureStops ==
    ( CapturedThisStep /\ current_screenshot_base64 = NoneStr )
    => ( /\ LoopLeft
         /\ nDecide = current_step - 1
         /\ nApply = current_step - 1
         /\ FatalUnlessStopped )

C3_Witness ==
    /\ Terminated
    /\ current_screenshot_base64 = NoneStr
    /\ exit_log = "capture_failed"
    /\ current_step = 2
    /\ nDecide = 1

\* C4 as stated: an apply call that returns false always ends the run in
\* FATAL_ERROR.
C4_ApplyFailureAlwaysFatal ==
    ( /\ LoopLeft
      /\ AppliedThisStep
      /\ ~success )
    => terminal_reason = "FATAL_ERROR"

\* C4 (amended): when apply returns false at step k the loop is left with
\* step_count = k, exactly k capture, decide and apply calls made (no retry,
\* no step k+1); the run ends in FATAL_ERROR, or in CANCELLED when a stop
\* request was pending at the checkpoint after the apply call.
C4_ApplyFailureStops ==
    ( AppliedThisStep /\ ~success )
    => ( /\ LoopLeft
         /\ nCapture = current_step
         /\ nDecide = current_step
         /\ nApply = current_step
         /\ FatalUnlessStopped )

C4_Witness ==
    /\ Terminated
    /\ exit_log = "execute_failed"
    /\ current_step = 3
    /\ nApply = 3
    /\ ~success

\* The reply of the current step has no command and status continue.
EmptyContinue ==
    /\ DecidedThisStep
    /\ gemini_response.t = "dict"
    /\ EmptyAction
    /\ task_status(gemini_response) = Str(<<"continue">>)

\* C5 as stated: an empty action with status continue always ends the run
\* in FATAL_ERROR.
C5_EmptyContinueAlwaysFatal ==
    ( LoopLeft /\ EmptyContinue ) => terminal_reason = "FATAL_ERROR"

\* C5 (amended): after a reply with an empty action and status continue the
\* loop is left without an apply call for that step and without a later
\* step; the run ends in FATAL_ERROR, or in CANCELLED when a stop request was
\* pending at the checkpoint after the decide call.
C5_EmptyContinueStops ==
    EmptyContinue
    => ( /\ LoopLeft
         /\ nCapture = current_step
         /\ nApply = current_step - 1
         /\ FatalUnlessStopped )

C5_Witness ==
    /\ Terminated
    /\ EmptyContinue
    /\ exit_log = "no_command"
    /\ HasKey(gemini_response, "command")
    /\ current_step = 2

\* A blocking call (capture, decide or apply) is in flight.
InFlight == pc \in {"capturing", "deciding", "executing"}

CallsUnchanged ==
    /\ nCapture' = nCapture
    /\ nDecide' = nDecide
    /\ nApply' = nApply

\* One step under C6: a worker on which stop() has been called never starts
\* another blocking call.  A stop request made between steps (or before the first)
\* lets the loop be left by its condition and the run end as CANCELLED; one
\* made while a call is in flight changes nothing but the flag, the call's
\* result is still stored when it returns, and the checkpoint that follows
\* leaves the loop as CANCELLED (an apply call that raises leaves it through
\* the finally clause instead).
C6_Step ==
    /\ (stop_requested /\ runs' = runs) => CallsUnchanged
    /\ (pc \in {"created", "while"} /\ stop_requested)
       => pc' \in {pc, "while", "post_loop"}
    /\ (pc = "post_loop" /\ stop_requested /\ exit_log = "none" /\ pc' # pc)
       => (pc' = "finally" /\ terminal_reason' = "CANCELLED")
    /\ (InFlight /\ ~stop_requested /\ stop_requested')
       => ( /\ pc' = pc
            /\ CallsUnchanged
            /\ UNCHANGED <<local_vars, exit_log, signal_vars>> )
    /\ (InFlight /\ stop_requested /\ pc' # pc)
       => ( \/ /\ pc' = "post_loop"
               /\ terminal_reason' = "CANCELLED"
               /\ pc = "capturing" => current_screenshot_base64' # UnsetStr
               /\ pc = "deciding" => gemini_response' # Unset
            \/ /\ pc = "executing"
               /\ pc' = "finally"
               /\ exit_log' = "exception" )

\* C6: every step of every run satisfies C6_Step: a stop request between
\* steps ends the run as CANCELLED before another capture, one made during
\* a blocking call does not interrupt it and takes effect at the checkpoint
\* after it, and no blocking call is started once stop() has been called.
C6_StopIsCooperative == [][C6_Step]_vars

C6_Witness ==
    /\ Terminated
    /\ stop_requested
    /\ exit_log = "stopped_decide"
    /\ current_step = 2
    /\ nApply = 1

\* C7 as stated: an error reply always ends the run in FATAL_ERROR.
C7_ErrorReplyAlwaysFatal ==
    ( /\ LoopLeft
      /\ DecidedThisStep
      /\ ReplyIsError(gemini_response) )
    => terminal_reason = "FATAL_ERROR"

\* C7 (amended): after a reply with an error key the loop is left with one
\* decide call per step (no retry), no apply call for that step and no
\* later step; the run ends in FATAL_ERROR, or in CANCELLED when a stop
\* request was pending at the checkpoint after the decide call.
C7_ErrorReplyStops ==
    ( DecidedThisStep /\ ReplyIsError(gemini_response) )
    => ( /\ LoopLeft
         /\ nCapture = current_step
         /\ nDecide = current_step
         /\ nApply = current_step - 1
         /\ FatalUnlessStopped )

C7_Witness ==
    /\ Terminated
    /\ ReplyIsError(gemini_response)
    /\ exit_log = "gemini_error"
    /\ current_step = 2
    /\ nApply = 1

\* C8: a reply that is a JSON object with a command but without the status
\* key is turned into an error reply by the parser, and its command is not
\* applied.
C8_MissingStatusRejected ==
    ( /\ DecidedThisStep
      /\ gemini_response.t = "dict"
      /\ ~HasKey(gemini_response, "status")
      /\ RunnableCommand )
    => ( /\ ReplyIsError(gemini_response)
         /\ nApply = current_step - 1 )

\* C9: a run emits the terminal event exactly once: none before the finally
\* clause, one from it on, whichever way the loop was left.
C9_OneTerminalEvent ==
    /\ nFinished <= 1
    /\ Terminated => nFinished = 1
    /\ pc \in {"created", "while", "capturing", "deciding", "executing",
               "post_loop", "finally"} => nFinished = 0
    /\ finished_queue <= 1

C9_Witness ==
    /\ Terminated
    /\ exit_log = "exception"
    /\ nFinished = 1

\* C10: every run that ends in FATAL_ERROR (after replies that carried all
\* required keys or an error key) has emitted an operator error notification.
C10_ErrorsNotified ==
    ( /\ PastLoop
      /\ terminal_reason = "FATAL_ERROR"
      /\ DecidedThisStep => (AllKeys \/ ReplyIsError(gemini_response)) )
    => nShowError >= 1

\* C11: the loop applies an action only after its own checks of the reply
\* (error key, empty command): an apply call is in flight only after this step's capture returned a
\* screenshot and this step's decide call returned a reply without error
\* key and with a non-empty command; the argv run consists of exactly the
\* words of that reply's command; and the calls are made one at a time, in
\* the order capture, decide, apply, each at most once per step.
C11_DecisionBeforeAction ==
    /\ pc = "executing"
       => ( /\ nCapture = current_step
            /\ nDecide = current_step
            /\ nApply = current_step
            /\ current_screenshot_base64 \notin {NoneStr, UnsetStr}
            /\ gemini_response.t = "dict"
            /\ ~HasKey(gemini_response, "error")
            /\ ~EmptyAction )
    /\ pc = "capturing"
       => (nDecide = current_step - 1 /\ nApply = current_step - 1)
    /\ pc = "deciding"
       => (nCapture = current_step /\ nApply = current_step - 1)
    /\ (AppliedThisStep /\ RunnableCommand)
       => \E pre \in {<<"adb">>, <<"adb", "shell">>} :
             full_cmd = pre \o Split(command_to_execute(gemini_response).v)

C11_Witness ==
    /\ Terminated
    /\ AppliedThisStep
    /\ RunnableCommand
    /\ full_cmd = <<"adb", "shell", "input", "tap">>
    /\ current_step = 2

\* run() is inside its loop.
InLoop == pc \in {"created", "while", "capturing", "deciding", "executing"}

\* One step under C12: a start that creates a worker gives it step count 0,
\* the running flag set, no stop request, no exit log, no error
\* notification and no call made, whatever the previous worker left; a
\* worker inside its loop has its flag cleared only if stop() was called on
\* it; and a stop request reaches only the worker that exists at that time.
C12_Step ==
    /\ runs' # runs
       => ( /\ runs' = runs + 1
            /\ pc' = "created"
            /\ current_step' = 0
            /\ is_running'
            /\ ~stop_requested'
            /\ exit_log' = "none"
            /\ nShowError' = 0
            /\ nFinished' = 0
            /\ nCapture' = 0 /\ nDecide' = 0 /\ nApply' = 0
            /\ current_screenshot_base64' = UnsetStr
            /\ gemini_response' = Unset )
    /\ (pc = "created" /\ pc' = "while") => current_step' = 0
    /\ (InLoop' /\ ~is_running') => stop_requested'
    /\ (~stop_requested /\ stop_requested') => (worker /\ runs' = runs)

\* C12: every run starts from a clean state and no stop request or failure
\* of an earlier run reaches a later one: every step satisfies C12_Step.
C12_CleanStart == [][C12_Step]_vars

C12_Witness ==
    /\ runs = 2
    /\ pc = "capturing"
    /\ current_step = 1
    /\ is_running
    /\ ~stop_requested
    /\ orphan_logs = 1

\* One step under C13: the step limit is reported only by the code after the
\* loop, when no stop request has been made and the loop was left without
\* any break; a run that reported it made max_steps successful steps whose
\* last reply was not done, has emitted no error notification, and emits
\* the terminal event once.
C13_Step ==
    /\ (exit_log' = "limit_reached" /\ exit_log # "limit_reached")
       => ( /\ pc = "post_loop"
            /\ pc' = "finally"
            /\ exit_log = "none"
            /\ ~stop_requested )
    /\ exit_log' = "limit_reached"
       => ( /\ terminal_reason' = "STEP_LIMIT_REACHED"
            /\ nShowError' = 0
            /\ show_error' = "none"
            /\ current_step' = max_steps
            /\ nApply' = max_steps
            /\ success'
            /\ task_status(gemini_response') # Str(<<"done">>)
            /\ Terminated' => nFinished' = 1 )

\* C13: reaching the step ceiling is a benign outcome, reported without an
\* operator error notification and only when the loop ended with no stop
\* request and no other outcome: every step satisfies C13_Step.
C13_LimitIsBenign == [][C13_Step]_vars

C13_Witness ==
    /\ Terminated
    /\ exit_log = "limit_reached"
    /\ nShowError = 0
    /\ nFinished = 1
    /\ nCapture = max_steps

\* C14: whatever command a reply with all required keys carries, the apply
\* call made for it returns to the loop (it does not raise), and it returns
\* true only after a bridge command was run.
C14_ApplyNeverRaises ==
    ( /\ DecidedThisStep
      /\ AllKeys
      /\ nApply = current_step
      /\ pc # "executing" )
    => ( /\ exit_log # "exception"
         /\ success => full_cmd # NoCmd )

C16_FencedReplyParsed ==
    ( /\ gemini_response # Unset
      /\ response.kind = "text"
      /\ response.text.open \in {"<fence>json", "<fence>"}
      /\ response.text.close = "<fence>"
      /\ response.text.valid
      /\ response.text.value.t = "dict"
      /\ \A k \in ReplyKeys : HasKey(response.text.value, k) )
    => gemini_response = response.text.value

\* One step under C17.
C17_Step ==
    \* the goal is the text given at start and is never modified during a run
    /\ runs' # runs => overall_task' \in TaskEntries \ {"", Placeholder}
    /\ runs' = runs => overall_task' = overall_task
    \* a decide call is started by a successful capture of the same step and
    \* carries the goal and that capture's image, nothing else
    /\ nDecide' # nDecide =>
          \/ runs' # runs /\ nDecide' = 0 /\ payload' = NoPayload
          \/ /\ runs' = runs
             /\ pc = "capturing" /\ pc' = "deciding"
             /\ nDecide' = nDecide + 1
             /\ nDecide' = current_step'
             /\ nCapture' = current_step'
             /\ DOMAIN payload' = {"text", "inlineData"}
             /\ payload'.text = overall_task'
             /\ payload'.inlineData =
                   IF current_screenshot_base64' = "" THEN "absent"
                   ELSE current_screenshot_base64'
    \* no request is built anywhere else
    /\ nDecide' = nDecide => payload' = payload

\* C17: the decide call of step k carries exactly the run's unmodified goal
\* and the image captured in step k (no image part when the capture is the
\* empty string), and nothing from earlier steps.
C17_StatelessDecide == [][C17_Step]_vars

C17_Witness ==
    /\ pc = "deciding"
    /\ current_step = 2
    /\ gemini_response.t = "dict"
    /\ payload = [text |-> "send mail", inlineData |-> "imgA"]

\* C18: no call is repeated.  The capture calls started are as many as the
\* steps begun, a decide call is made only for a capture that returned a
\* screenshot, an apply call only for a decide that returned a reply without
\* error, and each of the three is made at most once in a step: all the
\* steps before the current one made each call exactly once.
C18_NoRetries ==
    /\ nCapture = current_step
    /\ nDecide <= nCaptureOk
    /\ nApply <= nDecideOk
    /\ nCaptureOk <= nCapture
    /\ nDecideOk <= nDecide
    /\ current_step = 0 => nDecide = 0 /\ nApply = 0
    /\ current_step >= 1 =>
          /\ nDecide \in {current_step - 1, current_step}
          /\ nApply \in {current_step - 1, current_step}
    /\ pc = "capturing" => nDecide = current_step - 1
    /\ pc = "deciding" => nApply = current_step - 1

C18_Witness ==
    /\ Terminated
    /\ exit_log = "capture_failed"
    /\ current_step = 3
    /\ nCapture = 3
    /\ nCaptureOk = 2
    /\ nDecide = 2
    /\ nApply = 2

\* The worker referenced by self.worker has not yet emitted its terminal event.
RunActive ==
    pc \in {"created", "while", "capturing", "deciding", "executing",
            "post_loop", "finally"}

\* One step under C19.
C19_Step ==
    \* while running_task is true no worker is created, whatever the entry holds
    /\ running_task => (runs' = runs /\ worker' = worker)
    \* a worker is created only when the previous one has emitted its
    \* terminal event and _automation_finished has processed it
    /\ runs' # runs =>
          /\ ~running_task
          /\ finished_queue = 0
          /\ ~RunActive
          /\ runs >= 1 => nFinished = 1
          /\ running_task'
          /\ runs' = runs + 1
    \* running_task is reset only by _automation_finished taking the event
    /\ (running_task /\ ~running_task') =>
          (finished_queue' = finished_queue - 1 /\ ~RunActive)
    \* a worker in its loop is the one run the application knows as running
    /\ RunActive' => (running_task' /\ finished_queue' = 0)

\* C19: at most one run is active.  A start while running_task is true
\* creates no worker, and a new run starts only after the previous run's
\* terminal event has been processed by _automation_finished.
C19_SingleRun == [][C19_Step]_vars

C19_Witness ==
    /\ runs = 2
    /\ running_task
    /\ pc = "executing"
    /\ nFinished = 0
    /\ finished_queue = 0
    /\ orphan_logs = 0

\* C20: every run that has been started reaches its terminal state with the
\* terminal event emitted once, having begun at most max_steps steps,
\* whatever the calls return and whenever a stop is requested.
C20_RunTerminates ==
    /\ [](current_step <= max_steps /\ nCapture <= max_steps)
    /\ (pc = "created") ~> (Terminated /\ nFinished = 1)

C20_Witness ==
    /\ Terminated
    /\ nFinished = 1
    /\ current_step = max_steps
    /\ stop_requested
    /\ exit_log = "stopped_decide"

\* The log lines written when a checkpoint finds the flag cleared.
StoppedLogs == {"stopped_capture", "stopped_decide", "stopped_execute"}

\* One step under C21.  A blocking call returns when the worker leaves
\* "capturing", "deciding" or "executing"; an apply call given a command
\* that is no string does not return (C14).
C21_Step ==
    LET returns ==
            /\ InFlight
            /\ runs' = runs
            /\ pc' # pc
            /\ pc = "executing" => command_to_execute(gemini_response).t = "str"
    IN  \* a cleared flag at the return wins over the call's own result
        /\ (returns /\ ~is_running) =>
              /\ stop_requested
              /\ exit_log' \in StoppedLogs
              /\ pc' = "post_loop"
              /\ nShowError' = nShowError
              /\ show_error' = show_error
              /\ nDecide' = nDecide
              /\ nApply' = nApply
        \* the cancellation is never replaced by another outcome
        /\ (exit_log \in StoppedLogs /\ runs' = runs) => exit_log' = exit_log
        /\ exit_log' \in StoppedLogs =>
              /\ stop_requested'
              /\ ~is_running'
              /\ nShowError' = 0
              /\ terminal_reason' = "CANCELLED"

\* C21: when a stop request is pending as capture, decide or apply returns,
\* the run ends as CANCELLED whether the call succeeded or failed, no error
\* notification is emitted and no step-limit or completion outcome follows.
C21_StopBeforeFailure == [][C21_Step]_vars

C21_Witness ==
    /\ Terminated
    /\ exit_log = "stopped_execute"
    /\ AppliedThisStep
    /\ RunnableCommand
    /\ ~success
    /\ ReplyDone
    /\ nShowError = 0
    /\ current_step = 2

\* One step under C22.  update_screenshot_signal is emitted only inside a
\* capture call and show_error_signal only where nShowError counts it.
C22_Step ==
    \* nothing follows the terminal event before it is emitted
    /\ nFinished' = 0 => after_finished' = << >>
    \* the last log line is the one signal that follows it
    /\ after_finished' \in {<< >>, <<"log">>}
    /\ pc' = "final_log" => (nFinished' = 1 /\ after_finished' = << >>)
    /\ pc' = "ended" => (nFinished' = 1 /\ after_finished' = <<"log">>)
    \* once emitted: no capture call (image update), no error notification,
    \* no second terminal event
    /\ (nFinished >= 1 /\ runs' = runs) =>
          /\ nCapture' = nCapture
          /\ nShowError' = nShowError
          /\ show_error' = show_error
          /\ nFinished' = nFinished
          /\ pc' \in {"final_log", "ended"}

\* C22: the terminal event precedes the final log line; after the terminal
\* event exactly one log line is emitted, and no image update or error
\* notification.
C22_TerminalEventThenLog == [][C22_Step]_vars

C22_Witness ==
    /\ pc = "ended"
    /\ nFinished = 1
    /\ after_finished = <<"log">>
    /\ exit_log = "execute_failed"
    /\ nShowError = 1

\* The reply of the current step carries an action that is a non-empty
\* string of whitespace only.
WhitespaceAction ==
    /\ DecidedThisStep
    /\ gemini_response.t = "dict"
    /\ ~HasKey(gemini_response, "error")
    /\ command_to_execute(gemini_response).t = "str"
    /\ command_to_execute(gemini_response).v # << >>
    /\ \A i \in DOMAIN command_to_execute(gemini_response).v :
          command_to_execute(gemini_response).v[i] = " "

\* The run ended as an execution failure: apply was called for this step,
\* ran no bridge command and returned false, and the operator was notified.
EndedAsExecutionFailure ==
    /\ exit_log = "execute_failed"
    /\ terminal_reason = "FATAL_ERROR"
    /\ nApply = current_step
    /\ full_cmd = NoCmd
    /\ ~success
    /\ nShowError = 1
    /\ show_error = "Failed to execute ADB command"

\* C23 as stated: a whitespace-only action always reaches apply and ends the
\* run in FATAL_ERROR as an execution failure.
C23_WhitespaceAlwaysFatal ==
    ( LoopLeft /\ WhitespaceAction ) => EndedAsExecutionFailure

\* C23 (amended): a whitespace-only action is not taken for an empty action
\* and never lets the run continue or complete, whatever its status.  With
\* no stop request the run ends as an execution failure with an error
\* notification and no bridge command; a stop request pending at the
\* checkpoint after the decide or the apply call ends it as CANCELLED.
C23_WhitespaceFailsInApply ==
    WhitespaceAction =>
        /\ pc = "executing" \/ LoopLeft
        /\ exit_log \notin {"no_command", "no_command_done", "task_completed",
                            "limit_reached"}
        /\ AppliedThisStep => (full_cmd = NoCmd /\ ~success)
        /\ LoopLeft =>
              \/ EndedAsExecutionFailure
              \/ /\ stop_requested
                 /\ exit_log \in {"stopped_decide", "stopped_execute"}
                 /\ terminal_reason = "CANCELLED"
                 /\ nShowError = 0
        /\ (LoopLeft /\ ~stop_requested) => EndedAsExecutionFailure

C23_Witness ==
    /\ Terminated
    /\ WhitespaceAction
    /\ ReplyDone
    /\ EndedAsExecutionFailure
    /\ current_step = 2

====
